---- MODULE Spec2Model ----
(***************************************************************************)
(* Pulse-pattern detection, lock/timeout tracking, wavelength averaging    *)
(* and auto-gain control of PulseSeer.py (class MainWindow), with the gain *)
(* bookkeeping of ADS131M02_driver.py.                                     *)
(*                                                                         *)
(* Numbers.  Voltages are integers in millivolts.  Inside one batch of n   *)
(* samples a time is an integer count of "half samples": the code's        *)
(*     idx / sps * 1000  with  sps = n / 20.0 * 1000                       *)
(* is idx * 20 / n milliseconds, so a cluster centre (first+last)/2 is     *)
(* (first+last) half samples and one half sample is 10/n ms.  Comparisons  *)
(* against millisecond limits are cross-multiplied, so they are exact.     *)
(* Quality scores are fixed point with QSCALE steps of 1.                  *)
(* Wall-clock time (time.time(), QTimer) advances in whole seconds.        *)
(***************************************************************************)
EXTENDS Integers, Sequences, FiniteSets, TLC

VARIABLES
    scanning,                    \* self.scanning
    continuous_checkbox,         \* self.continuous_checkbox.isChecked()
    stop_shots,                  \* pending QTimer.singleShot(1100, self.stop_scan): ms left of each
    shot_stale,                  \* for each pending single shot: stop_scan has run since it
                                 \* was scheduled
    channel_gains,               \* self.adc.channel_gains[0]
    consecutive_cycles,          \* self.consecutive_cycles
    is_locked,                   \* self.is_locked
    pattern_detection_active,    \* self.pattern_detection_active
    no_pattern_timer,            \* self.no_pattern_timer: -1 inactive, else milliseconds left
    status_label,                \* self.status_label visible ("NO PATTERN DETECTED")
    sample_buffer,               \* self.sample_buffer[param]: pattern-based history
    continuous_sample_buffer,    \* self.continuous_sample_buffer[param]
    continuous_wavelength_cycle, \* self.continuous_wavelength_cycle
    cycle_timestamps,            \* self.cycle_timestamps, kept as ages in seconds
    data,                        \* self.data[param], its last element only (<<>> if none)
    voltages,                    \* the batch last read by sample_data, by name
    pattern_result,              \* pattern_result of the last non-empty batch
    gain_calls,                  \* auto_adjust_gain invocations made by the last sample_data
    set_gain_failed,             \* adc.set_gain raised in the last sample_data
    graph_due,                   \* graph_timer has expired and its handler is pending
    silence_ms,                  \* ms since no_pattern_timer was armed from
                                 \* pattern_detection_active = False; -1 when it is False
    batches_read                 \* batches read so far (bounds the exploration)

vars == << scanning, continuous_checkbox, stop_shots, shot_stale, channel_gains, consecutive_cycles, is_locked,
           pattern_detection_active, no_pattern_timer, status_label,
           sample_buffer, continuous_sample_buffer, continuous_wavelength_cycle,
           cycle_timestamps, data, voltages, pattern_result, gain_calls,
           set_gain_failed, graph_due, silence_ms, batches_read >>

----------------------------------------------------------------------------
(* Program constants *)

PARAMETERS == 1..6                 \* "700nm" .. "1050nm", by position
\* a variant of EXPECTED_PULSE_COUNT: windows of five pulses
ONE_PULSE_FEWER == 6 - 1
EXPECTED_PULSE_COUNT == 6
VOLTAGE_THRESHOLD == 100           \* 0.1 V
LOCK_THRESHOLD == 2
NO_PATTERN_TIMEOUT_MS == 3000      \* no_pattern_timer.start(3000)
SINGLE_SHOT_MS == 1100             \* QTimer.singleShot(1100, self.stop_scan)
GRAPH_TIMER_MS == 1000             \* graph_timer.start(1000): the step of the clock
THRESHOLD_LOW == 100               \* threshold_low = 0.1
THRESHOLD_HIGH == 1000             \* threshold_high = 1.0
FOUR_CYCLES_PER_BATCH == 3 + 1     \* a variant of MAX_CYCLES_PER_BATCH
MAX_CYCLES_PER_BATCH == 3          \* min(3, total_valid_cycles)
RECENT_PATTERN_SEC == 2            \* time_since_last_pattern < 2.0
STALE_PATTERN_SEC == 5             \* time_since_last_pattern > 5.0
WINDOW_SEC == 1                    \* current_time - ts <= 1.0
PULSES_PER_CYCLE == 6              \* cycles_in_last_second * 6
MIN_WINDOW == 3
MAX_WINDOW == 30
DEFAULT_WINDOW == 10
CONTINUOUS_CAP == 100              \* len(continuous_sample_buffer[param]) > 100
CONTINUOUS_KEEP == 50              \* [-50:]
QSCALE == 10000                    \* fixed-point one for quality scores

gain_values == <<1, 2, 4, 8>>                        \* auto_adjust_gain
driver_gain_values == <<1, 2, 4, 8, 16, 32, 64, 128>>  \* ADS131M02.set_gain
\* a variant of gain_steps: the last step is the code of GAIN_16
gain_steps_skip == <<0, 1, 2, 4>>
\* GAIN_1, GAIN_2, GAIN_4, GAIN_8: the register codes 0b000 .. 0b011
gain_steps == <<0, 1, 2, 3>>

----------------------------------------------------------------------------
(* Arithmetic helpers *)

Abs(x) == IF x < 0 THEN -x ELSE x
Max(a, b) == IF a >= b THEN a ELSE b
Min(a, b) == IF a <= b THEN a ELSE b

\* sum of a sequence, by halves
RECURSIVE SumSeq(_)
SumSeq(s) ==
    IF s = <<>> THEN 0
    ELSE IF Len(s) = 1 THEN s[1]
    ELSE LET h == Len(s) \div 2
         IN  SumSeq(SubSeq(s, 1, h)) + SumSeq(SubSeq(s, h + 1, Len(s)))

SetMin(S) == CHOOSE x \in S : \A y \in S : x <= y

\* np.mean of a non-empty list of integers, rounded down
Mean(s) == SumSeq(s) \div Len(s)

\* Python's s[-k:] for k >= 1
LastN(s, k) == IF Len(s) <= k THEN s ELSE SubSeq(s, Len(s) - k + 1, Len(s))

\* Python's s[a:a+k] with 0-based a: truncated at the end of s
Slice(s, a, k) == SubSeq(s, a + 1, Min(a + k, Len(s)))

----------------------------------------------------------------------------
(* detect_cycle_in_batch.  buf is the batch, a sequence of millivolts;     *)
(* sample indices are 0-based as in the code (sample idx is buf[idx + 1]). *)

\* int(round(EXPECTED_CYCLE_DURATION_MS * (sps / 1000))): 3.90625 * n / 20,
\* rounded half to even
samples_per_cycle(n) ==
    LET q == (25 * n) \div 128
        r == (25 * n) % 128
    IN  IF r < 64 THEN q
        ELSE IF r > 64 THEN q + 1
        ELSE IF q % 2 = 0 THEN q ELSE q + 1

\* a variant of pulse_mask: a sample at the threshold counts as high
pulse_mask_inclusive(buf, idx) == buf[idx + 1] >= VOLTAGE_THRESHOLD

pulse_mask(buf, idx) == buf[idx + 1] > VOLTAGE_THRESHOLD

\* Step 3: the scan that groups consecutive high samples, advanced one run at
\* a time: from index i the next cluster starts at the first high sample and
\* ends before the next low one, or with the batch when the batch ends high
RECURSIVE ClusterScan(_, _, _)
ClusterScan(buf, i, clusters) ==
    LET highs == {j \in i..(Len(buf) - 1) : pulse_mask(buf, j)}
    IN  IF highs = {} THEN clusters
        ELSE LET first == SetMin(highs)
                 lows  == {j \in first..(Len(buf) - 1) : ~pulse_mask(buf, j)}
                 stop  == IF lows = {} THEN Len(buf) ELSE SetMin(lows)
                 current_cluster == [k \in 1..(stop - first) |-> first + k - 1]
             IN  ClusterScan(buf, stop, Append(clusters, current_cluster))

pulse_clusters(buf) == ClusterScan(buf, 0, <<>>)

\* Step 4.  np.mean(cluster) / sps * 1000 in half samples: twice the mean index
center_time(cluster) == (2 * SumSeq(cluster)) \div Len(cluster)

\* (cluster[-1] - cluster[0]) / sps * 1000 in half samples
pulse_width(cluster) == 2 * (cluster[Len(cluster)] - cluster[1])

\* a variant of pulse_voltage: the mean of the whole batch
batch_mean_voltage(buf, cluster) == Mean(buf)

\* np.mean([buf[idx] for idx in cluster])
pulse_voltage(buf, cluster) == Mean([k \in 1..Len(cluster) |-> buf[cluster[k] + 1]])

\* the three lists built from the clusters cl of the batch
pulse_center_times(cl) == [k \in 1..Len(cl) |-> center_time(cl[k])]
pulse_widths(cl) == [k \in 1..Len(cl) |-> pulse_width(cl[k])]
pulse_voltages(buf, cl) == [k \in 1..Len(cl) |-> pulse_voltage(buf, cl[k])]

\* Step 5, one window.  Limits are in hundredths of a millisecond; a time of
\* t half samples in a batch of n samples is t * 1000 / n hundredths.
MIN_CYCLE_DURATION == 200
MAX_CYCLE_DURATION == 600
MIN_PULSE_WIDTH == 10
MAX_PULSE_WIDTH == 50
MIN_SPACING == 10
MAX_SPACING == 200

spacings(cycle_pulses) ==
    [i \in 1..(Len(cycle_pulses) - 1) |-> cycle_pulses[i + 1] - cycle_pulses[i]]

SeqMin(s) == CHOOSE x \in {s[i] : i \in 1..Len(s)} : \A i \in 1..Len(s) : x <= s[i]
SeqMax(s) == CHOOSE x \in {s[i] : i \in 1..Len(s)} : \A i \in 1..Len(s) : x >= s[i]

\* six times cycle_duration: 6 * (last - first) + sum of the widths
cycle_duration6(cycle_pulses, cycle_widths) ==
    6 * (cycle_pulses[Len(cycle_pulses)] - cycle_pulses[1]) + SumSeq(cycle_widths)

cycle_duration_ok(n, cycle_pulses, cycle_widths) ==
    LET d6 == cycle_duration6(cycle_pulses, cycle_widths)
    IN  /\ 6 * MIN_CYCLE_DURATION * n <= 1000 * d6
        /\ 1000 * d6 <= 6 * MAX_CYCLE_DURATION * n

pulse_width_ok(n, cycle_widths) ==
    /\ 6 * MIN_PULSE_WIDTH * n <= 1000 * SumSeq(cycle_widths)
    /\ 1000 * SumSeq(cycle_widths) <= 6 * MAX_PULSE_WIDTH * n

\* a variant of spacing_ok: only the smallest spacing is tested
spacing_min_only(n, cycle_pulses) ==
    LET sp == spacings(cycle_pulses)
        min_spacing == IF sp # <<>> THEN SeqMin(sp) ELSE 0
    IN  MIN_SPACING * n <= 1000 * min_spacing /\ 1000 * min_spacing <= MAX_SPACING * n

spacing_ok(n, cycle_pulses) ==
    LET sp == spacings(cycle_pulses)
        min_spacing == IF sp # <<>> THEN SeqMin(sp) ELSE 0
        max_spacing == IF sp # <<>> THEN SeqMax(sp) ELSE 0
    IN  /\ MIN_SPACING * n <= 1000 * min_spacing /\ 1000 * min_spacing <= MAX_SPACING * n
        /\ MIN_SPACING * n <= 1000 * max_spacing /\ 1000 * max_spacing <= MAX_SPACING * n

RECURSIVE ISqrtIn(_, _, _)
ISqrtIn(x, lo, hi) ==
    IF lo >= hi THEN lo
    ELSE LET mid == (lo + hi + 1) \div 2
         IN  IF mid * mid <= x THEN ISqrtIn(x, mid, hi) ELSE ISqrtIn(x, lo, mid - 1)

\* floor of the square root, for x < 2^30
ISqrt(x) == ISqrtIn(x, 0, 32767)

\* |cycle_duration - 1000/256| / (1000/256), times QSCALE:
\* |2560 * d6 - 6000 * n| / (6000 * n), reduced by 80
duration_error(n, cycle_pulses, cycle_widths) ==
    (Abs(32 * cycle_duration6(cycle_pulses, cycle_widths) - 75 * n) * QSCALE) \div (75 * n)

\* |avg_pulse_width - 0.24| / 0.24, times QSCALE:
\* |1000 * sum - 144 * n| / (144 * n), reduced by 8
width_error(n, cycle_widths) ==
    (Abs(125 * SumSeq(cycle_widths) - 18 * n) * QSCALE) \div (18 * n)

\* max(0, 1 - np.std(spacings) / np.mean(spacings)) if the mean is positive, else 0;
\* std / mean = sqrt(k * sum of squares - square of sum) / sum for k spacings
spacing_consistency(cycle_pulses) ==
    LET sp == spacings(cycle_pulses)
        k  == Len(sp)
        s1 == SumSeq(sp)
        s2 == SumSeq([i \in 1..k |-> sp[i] * sp[i]])
    IN  IF s1 > 0
        THEN Max(0, QSCALE - (ISqrt((k * s2 - s1 * s1) * 10000) * (QSCALE \div 100)) \div s1)
        ELSE 0

\* a variant of quality_score: the spacings do not count
quality_without_spacing(n, cycle_pulses, cycle_widths) ==
    Max(0, QSCALE - (duration_error(n, cycle_pulses, cycle_widths)
                     + width_error(n, cycle_widths)) \div 3)

quality_score(n, cycle_pulses, cycle_widths) ==
    Max(0, QSCALE - (duration_error(n, cycle_pulses, cycle_widths)
                     + width_error(n, cycle_widths)
                     + (QSCALE - spacing_consistency(cycle_pulses))) \div 3)

\* list.sort(key=...) is stable: an element is inserted behind every element
\* that does not sort strictly after it.

\* a variant of InsertByTime: the latest pulse first
RECURSIVE InsertByTimeLatestFirst(_, _)
InsertByTimeLatestFirst(s, x) ==
    IF s = <<>> THEN <<x>>
    ELSE IF x[1] > Head(s)[1] THEN <<x>> \o s
         ELSE <<Head(s)>> \o InsertByTimeLatestFirst(Tail(s), x)

\* pulse_data.sort(key=lambda x: x[0]), on (time, width, voltage) triples
RECURSIVE InsertByTime(_, _)
InsertByTime(s, x) ==
    IF s = <<>> THEN <<x>>
    ELSE IF x[1] < Head(s)[1] THEN <<x>> \o s
         ELSE <<Head(s)>> \o InsertByTime(Tail(s), x)

RECURSIVE SortByTime(_)
SortByTime(s) ==
    IF s = <<>> THEN <<>>
    ELSE InsertByTime(SortByTime(SubSeq(s, 1, Len(s) - 1)), s[Len(s)])

\* valid_cycles.sort(key=lambda x: x['quality'], reverse=True)
RECURSIVE InsertByQuality(_, _)
InsertByQuality(s, x) ==
    IF s = <<>> THEN <<x>>
    ELSE IF x.quality > Head(s).quality THEN <<x>> \o s
         ELSE <<Head(s)>> \o InsertByQuality(Tail(s), x)

RECURSIVE SortByQuality(_)
SortByQuality(s) ==
    IF s = <<>> THEN <<>>
    ELSE InsertByQuality(SortByQuality(SubSeq(s, 1, Len(s) - 1)), s[Len(s)])

cycle_valid(n, cycle_pulses, cycle_widths) ==
    /\ cycle_duration_ok(n, cycle_pulses, cycle_widths)
    /\ pulse_width_ok(n, cycle_widths)
    /\ spacing_ok(n, cycle_pulses)
    /\ Len(cycle_pulses) = EXPECTED_PULSE_COUNT

\* [p[k] for p in pulse_data], as a tuple
Column(pulse_data, k) ==
    SubSeq([i \in 1..Len(pulse_data) |-> pulse_data[i][k]], 1, Len(pulse_data))

\* the dictionary appended to valid_cycles for the window at start_idx, whose
\* pulses are cp, cw and cv, in a batch of n samples
cycle_entry(n, start_idx, cp, cw, cv) ==
    LET pulse_data == SortByTime([i \in 1..Len(cp) |-> <<cp[i], cw[i], cv[i]>>])
    IN  [ start_idx |-> start_idx,
          quality |-> quality_score(n, cp, cw),
          pulses |-> cp,
          widths |-> cw,
          voltages |-> cv,
          sorted_pulse_times |-> Column(pulse_data, 1),
          sorted_pulse_widths |-> Column(pulse_data, 2),
          sorted_pulse_voltages |-> Column(pulse_data, 3) ]

\* range(len(pulse_center_times) - EXPECTED_PULSE_COUNT + 1)
start_indices(npulses) == 0..(npulses - EXPECTED_PULSE_COUNT)

\* the loop over start_idx, from start_idx on: windows that are not of six
\* pulses are skipped, windows that fail a criterion are rejected; times,
\* widths and volts are the three lists of the batch of n samples
RECURSIVE CollectCycles(_, _, _, _, _, _)
CollectCycles(n, times, widths, volts, start_idx, acc) ==
    IF start_idx \notin start_indices(Len(times)) THEN acc
    ELSE LET cp == Slice(times, start_idx, EXPECTED_PULSE_COUNT)
             cw == Slice(widths, start_idx, EXPECTED_PULSE_COUNT)
             cv == Slice(volts, start_idx, EXPECTED_PULSE_COUNT)
         IN  IF Len(cp) # EXPECTED_PULSE_COUNT
             THEN CollectCycles(n, times, widths, volts, start_idx + 1, acc)
             ELSE IF cycle_valid(n, cp, cw)
                  THEN CollectCycles(n, times, widths, volts, start_idx + 1,
                                     Append(acc, cycle_entry(n, start_idx, cp, cw, cv)))
                  ELSE CollectCycles(n, times, widths, volts, start_idx + 1, acc)

\* valid_cycles before the sort, from the clusters cl of the batch
candidate_cycles(buf, cl) ==
    CollectCycles(Len(buf), pulse_center_times(cl), pulse_widths(cl),
                  pulse_voltages(buf, cl), 0, <<>>)

\* a variant of valid_cycles: the candidates in the order they were found
valid_cycles_unsorted(buf) == candidate_cycles(buf, pulse_clusters(buf))

valid_cycles(buf) == SortByQuality(candidate_cycles(buf, pulse_clusters(buf)))

\* a variant of high_samples: nothing is counted while the pattern is locked
high_samples_unlocked(buf) ==
    IF is_locked THEN 0 ELSE Cardinality({i \in 1..Len(buf) : buf[i] > VOLTAGE_THRESHOLD})

high_samples(buf) == Cardinality({i \in 1..Len(buf) : buf[i] > VOLTAGE_THRESHOLD})

\* the result dictionary as it is initialised: nothing detected
no_detection(buf) ==
    [ detected |-> FALSE, score |-> 0, quality |-> 0, pulse_count |-> 0,
      high_samples |-> 0,
      voltage_stats |-> [ mean |-> Mean(buf), min |-> SeqMin(buf), max |-> SeqMax(buf) ] ]

\* Step 6: the returned dictionary, given the sorted valid_cycles vc
detect_result(buf, vc) ==
    IF Len(buf) < samples_per_cycle(Len(buf)) THEN no_detection(buf)
    ELSE IF vc # <<>>
         THEN [ detected |-> TRUE,
                score |-> vc[1].quality,
                quality |-> vc[1].quality,
                pulse_count |-> EXPECTED_PULSE_COUNT,
                high_samples |-> high_samples(buf),
                voltage_stats |-> no_detection(buf).voltage_stats,
                sorted_pulse_times |-> vc[1].sorted_pulse_times,
                sorted_pulse_widths |-> vc[1].sorted_pulse_widths,
                sorted_pulse_voltages |-> vc[1].sorted_pulse_voltages,
                total_valid_cycles |-> Len(vc),
                all_valid_cycles |-> vc ]
         ELSE no_detection(buf)

\* The returned dictionary, for a non-empty batch (sample_data passes no other).
\* Keys that are only printed (pulse_width_ms, actual_sps, the std of
\* voltage_stats, sorted_pulse_clusters) are left out.
detect_cycle_in_batch(buf) == detect_result(buf, valid_cycles(buf))

----------------------------------------------------------------------------
(* Batches *)

Rep(v, k) == SubSeq([i \in 1..k |-> v], 1, k)

\* pulses of the given amplitudes, each `width` samples wide and followed by
\* `gap` samples at `low`
RECURSIVE PulseTrain(_, _, _, _)
PulseTrain(amps, width, gap, low) ==
    IF amps = <<>> THEN <<>>
    ELSE Rep(Head(amps), width) \o Rep(low, gap) \o PulseTrain(Tail(amps), width, gap, low)

Pad(s, n, low) == s \o Rep(low, n - Len(s))

\* The batches read, by name.  80 samples in 20 ms: 0.25 ms per sample.
Samples ==
    [ empty    |-> <<>>,
      \* noise only: every sample below 0.1 V
      low      |-> Rep(40, 80),
      \* a steady level between the thresholds: one cluster
      mid      |-> Rep(504, 80),
      \* five pulses above 1.0 V
      fiveloud |-> Pad(PulseTrain(<<1200, 1200, 1200, 1200, 1200>>, 2, 1, 0), 80, 0),
      \* the six-pulse pattern, the last pulse above 1.0 V
      pattern  |-> Pad(PulseTrain(<<304, 400, 504, 352, 448, 1200>>, 2, 1, 0), 80, 0),
      \* the six-pulse pattern within the thresholds
      quiet    |-> Pad(PulseTrain(<<304, 400, 504, 352, 448, 384>>, 2, 1, 0), 80, 0),
      \* eight pulses: three overlapping windows of six
      eight    |-> Pad(PulseTrain(<<304, 400, 504, 352, 448, 384, 320, 416>>, 2, 1, 0),
                       80, 0),
      \* seven pulses, the first one a sample further from the rest: the window
      \* that starts at the second pulse is the more regular one
      late     |-> Pad(Rep(320, 2) \o Rep(0, 2)
                           \o PulseTrain(<<304, 400, 504, 352, 448, 384>>, 2, 1, 0), 80, 0),
      \* nine pulses: four overlapping windows of six
      nine     |-> Pad(PulseTrain(<<304, 400, 504, 352, 448, 384, 320, 416, 368>>,
                                  2, 1, 0), 80, 0),
      \* six pulses of one sample each: the width of each is 0 ms
      thin     |-> Pad(PulseTrain(<<304, 400, 504, 352, 448, 384>>, 1, 2, 0), 80, 0),
      \* six pulses, the first of four samples and the others of three: a mean
      \* width of 0.54 ms in a span of 5.67 ms, spacings of about 1 ms
      wide     |-> Pad(Rep(304, 4) \o Rep(0, 1)
                           \o PulseTrain(<<400, 504, 352, 448, 384>>, 3, 1, 0), 80, 0),
      \* six pulses 1.5 ms apart: a span of 7.75 ms
      sparse   |-> Pad(PulseTrain(<<304, 400, 504, 352, 448, 384>>, 2, 4, 0), 80, 0),
      \* seven pulses, the first one 2.5 ms before the second: the window that
      \* starts at the first pulse spans 5.75 ms with one spacing too long
      gap      |-> Pad(Rep(320, 2) \o Rep(0, 8)
                           \o PulseTrain(<<304, 400, 504, 352, 448, 384>>, 2, 1, 0), 80, 0),
      \* the six-pulse pattern over a floor of exactly 0.1 V, and a seventh
      \* pulse in the last two samples of the batch
      edge     |-> Pad(PulseTrain(<<304, 400, 504, 352, 448, 384>>, 2, 1, 100), 78, 100)
                       \o Rep(304, 2) ]

BatchNames == DOMAIN Samples

\* the batches of the main state machine
Batches == { "empty", "low", "pattern", "fiveloud" }

\* detect_cycle_in_batch and np.mean of every non-empty batch, computed once
Detection ==
    [ low      |-> detect_cycle_in_batch(Samples.low),
      mid      |-> detect_cycle_in_batch(Samples.mid),
      fiveloud |-> detect_cycle_in_batch(Samples.fiveloud),
      pattern  |-> detect_cycle_in_batch(Samples.pattern),
      quiet    |-> detect_cycle_in_batch(Samples.quiet),
      eight    |-> detect_cycle_in_batch(Samples.eight),
      late     |-> detect_cycle_in_batch(Samples.late),
      nine     |-> detect_cycle_in_batch(Samples.nine),
      thin     |-> detect_cycle_in_batch(Samples.thin),
      wide     |-> detect_cycle_in_batch(Samples.wide),
      sparse   |-> detect_cycle_in_batch(Samples.sparse),
      gap      |-> detect_cycle_in_batch(Samples.gap),
      edge     |-> detect_cycle_in_batch(Samples.edge) ]
BatchMean ==
    [ low      |-> Mean(Samples.low),
      mid      |-> Mean(Samples.mid),
      fiveloud |-> Mean(Samples.fiveloud),
      pattern  |-> Mean(Samples.pattern),
      quiet    |-> Mean(Samples.quiet),
      eight    |-> Mean(Samples.eight),
      late     |-> Mean(Samples.late),
      nine     |-> Mean(Samples.nine),
      thin     |-> Mean(Samples.thin),
      wide     |-> Mean(Samples.wide),
      sparse   |-> Mean(Samples.sparse),
      gap      |-> Mean(Samples.gap),
      edge     |-> Mean(Samples.edge) ]

----------------------------------------------------------------------------
(* auto_adjust_gain, for the ADS131M02 on channel 0.  g is                 *)
(* adc.channel_gains[0], csb the continuous_sample_buffer, set_gain_ok     *)
(* whether adc.set_gain returns (TRUE) or raises (FALSE).                  *)

\* ADS131M02.set_gain(0, code): the tracked gain afterwards
set_gain(code) == driver_gain_values[(code % 8) + 1]

\* the loop that looks current_gain up in gain_values; 0 when it is not there
current_gain_idx(g) ==
    IF \E i \in 1..Len(gain_values) : gain_values[i] = g
    THEN (CHOOSE i \in 1..Len(gain_values) : gain_values[i] = g) - 1
    ELSE 0

\* a variant of any_above: every sample is above the threshold
all_above(voltage_batch, threshold_high) ==
    \A i \in 1..Len(voltage_batch) : Abs(voltage_batch[i]) > threshold_high

any_above(voltage_batch, threshold_high) ==
    \E i \in 1..Len(voltage_batch) : Abs(voltage_batch[i]) > threshold_high
any_below(voltage_batch, threshold_low) ==
    \E i \in 1..Len(voltage_batch) : Abs(voltage_batch[i]) < threshold_low
max_voltage(voltage_batch) == SeqMax([i \in 1..Len(voltage_batch) |-> Abs(voltage_batch[i])])

empty_buffers == [param \in PARAMETERS |-> <<>>]

\* a variant of gain_direction: the low test is made before the high one
gain_direction_low_first(voltage_batch) ==
    IF voltage_batch = <<>> THEN "none"
    ELSE IF any_below(voltage_batch, THRESHOLD_LOW) THEN "up"
    ELSE IF any_above(voltage_batch, THRESHOLD_HIGH) THEN "down"
    ELSE "none"

\* "down", "up" or "none": the branch auto_adjust_gain takes
gain_direction(voltage_batch) ==
    IF voltage_batch = <<>> THEN "none"
    ELSE IF any_above(voltage_batch, THRESHOLD_HIGH) THEN "down"
    ELSE IF any_below(voltage_batch, THRESHOLD_LOW)
            /\ max_voltage(voltage_batch) <= THRESHOLD_HIGH THEN "up"
    ELSE "none"

\* gain_direction of every batch, computed once
GainDirection ==
    [ empty    |-> gain_direction(Samples.empty),
      low      |-> gain_direction(Samples.low),
      mid      |-> gain_direction(Samples.mid),
      fiveloud |-> gain_direction(Samples.fiveloud),
      pattern  |-> gain_direction(Samples.pattern),
      quiet    |-> gain_direction(Samples.quiet),
      eight    |-> gain_direction(Samples.eight),
      late     |-> gain_direction(Samples.late),
      nine     |-> gain_direction(Samples.nine),
      thin     |-> gain_direction(Samples.thin),
      wide     |-> gain_direction(Samples.wide),
      sparse   |-> gain_direction(Samples.sparse),
      gap      |-> gain_direction(Samples.gap),
      edge     |-> gain_direction(Samples.edge) ]

\* a variant of auto_adjust_gain: a change of gain keeps the continuous buffers
auto_adjust_gain_keep(g, csb, voltage_batch, set_gain_ok) ==
    LET idx == current_gain_idx(g)
        dir == GainDirection[voltage_batch]
    IN  IF dir = "down" /\ idx > 0
        THEN IF set_gain_ok
             THEN [ gain |-> set_gain(gain_steps[idx]), csb |-> csb, failed |-> FALSE ]
             ELSE [ gain |-> g, csb |-> csb, failed |-> TRUE ]
        ELSE IF dir = "up" /\ idx < Len(gain_steps) - 1
        THEN IF set_gain_ok
             THEN [ gain |-> set_gain(gain_steps[idx + 2]), csb |-> csb, failed |-> FALSE ]
             ELSE [ gain |-> g, csb |-> csb, failed |-> TRUE ]
        ELSE [ gain |-> g, csb |-> csb, failed |-> FALSE ]

\* a variant of auto_adjust_gain: the gain is stored before the register is
\* written, so a write that raises leaves the new gain behind
auto_adjust_gain_stored_first(g, csb, voltage_batch, set_gain_ok) ==
    LET idx == current_gain_idx(g)
        dir == GainDirection[voltage_batch]
    IN  IF dir = "down" /\ idx > 0
        THEN IF set_gain_ok
             THEN [ gain |-> set_gain(gain_steps[idx]), csb |-> empty_buffers,
                    failed |-> FALSE ]
             ELSE [ gain |-> set_gain(gain_steps[idx]), csb |-> csb, failed |-> TRUE ]
        ELSE IF dir = "up" /\ idx < Len(gain_steps) - 1
        THEN IF set_gain_ok
             THEN [ gain |-> set_gain(gain_steps[idx + 2]), csb |-> empty_buffers,
                    failed |-> FALSE ]
             ELSE [ gain |-> set_gain(gain_steps[idx + 2]), csb |-> csb, failed |-> TRUE ]
        ELSE [ gain |-> g, csb |-> csb, failed |-> FALSE ]

\* the gain and continuous_sample_buffer after one call on the named batch,
\* and whether adc.set_gain was called and raised
auto_adjust_gain(g, csb, voltage_batch, set_gain_ok) ==
    LET idx == current_gain_idx(g)
        dir == GainDirection[voltage_batch]
    IN  IF dir = "down" /\ idx > 0
        THEN IF set_gain_ok
             THEN [ gain |-> set_gain(gain_steps[idx]), csb |-> empty_buffers,
                    failed |-> FALSE ]
             ELSE [ gain |-> g, csb |-> csb, failed |-> TRUE ]
        ELSE IF dir = "up" /\ idx < Len(gain_steps) - 1
        THEN IF set_gain_ok
             THEN [ gain |-> set_gain(gain_steps[idx + 2]), csb |-> empty_buffers,
                    failed |-> FALSE ]
             ELSE [ gain |-> g, csb |-> csb, failed |-> TRUE ]
        ELSE [ gain |-> g, csb |-> csb, failed |-> FALSE ]

----------------------------------------------------------------------------
(* sample_data *)

\* a variant of assign_cycle: the last wavelength is left out
assign_cycle_five(sb, cycle_data, g) ==
    IF Len(cycle_data.sorted_pulse_times) = 6
    THEN [param \in PARAMETERS |->
            IF param < 6
            THEN Append(sb[param], cycle_data.sorted_pulse_voltages[param] \div g)
            ELSE sb[param]]
    ELSE sb

\* the inner loop: pulse i of a cycle goes to wavelength i, divided by the gain
assign_cycle(sb, cycle_data, g) ==
    IF Len(cycle_data.sorted_pulse_times) = 6
    THEN [param \in PARAMETERS |->
            Append(sb[param], cycle_data.sorted_pulse_voltages[param] \div g)]
    ELSE sb

\* a variant of low_pulse: every detected cycle calls auto_adjust_gain
low_pulse_any(cycle_data) == TRUE

\* any(abs(v) < 0.1 for v in sorted_pulse_voltages)
low_pulse(cycle_data) ==
    \E i \in 1..Len(cycle_data.sorted_pulse_voltages) :
        Abs(cycle_data.sorted_pulse_voltages[i]) < THRESHOLD_LOW

\* for cycle_idx in range(max_cycles_to_process), from cycle_idx on; st holds
\* the sample_buffer, the gain, the continuous buffers and the number of
\* auto_adjust_gain calls made so far
RECURSIVE process_cycles(_, _, _, _, _)
process_cycles(st, cycles, cycle_idx, batch, set_gain_ok) ==
    IF cycle_idx >= Min(MAX_CYCLES_PER_BATCH, Len(cycles)) THEN st
    ELSE LET cycle_data == cycles[cycle_idx + 1]
             sb1 == assign_cycle(st.sb, cycle_data, st.gain)
             adj == IF Len(cycle_data.sorted_pulse_times) = 6 /\ low_pulse(cycle_data)
                    THEN auto_adjust_gain(st.gain, st.csb, batch, set_gain_ok)
                    ELSE [ gain |-> st.gain, csb |-> st.csb, failed |-> FALSE ]
             calls == IF Len(cycle_data.sorted_pulse_times) = 6 /\ low_pulse(cycle_data)
                      THEN st.calls + 1 ELSE st.calls
         IN  process_cycles([ sb |-> sb1, gain |-> adj.gain, csb |-> adj.csb,
                              calls |-> calls, failed |-> st.failed \/ adj.failed ],
                            cycles, cycle_idx + 1, batch, set_gain_ok)

\* a variant of continuous_append: the index does not wrap, and every batch
\* after the sixth goes to the last wavelength
continuous_append_no_wrap(csb, cycle, batch) ==
    [csb EXCEPT ![Min(cycle, Cardinality(PARAMETERS))] = Append(@, BatchMean[batch])]

\* the continuous buffers after the round-robin append of the batch mean
continuous_append(csb, cycle, batch) ==
    LET continuous_wavelength == ((cycle - 1) % Cardinality(PARAMETERS)) + 1
    IN  [csb EXCEPT ![continuous_wavelength] = Append(@, BatchMean[batch])]

\* variants: a lock after one detection, a timer left running on a
\* detection, a timer restarted by every batch without a pattern
lock_after_one(count, locked) == IF count >= LOCK_THRESHOLD - 1 THEN TRUE ELSE locked
leave_timer(timer) == timer
lock_never(count, locked) == locked
arm_timer_always(active, timer) == NO_PATTERN_TIMEOUT_MS

\* if self.consecutive_cycles >= self.LOCK_THRESHOLD: self.is_locked = True
lock_after(count, locked) == IF count >= LOCK_THRESHOLD THEN TRUE ELSE locked

\* if self.no_pattern_timer.isActive(): self.no_pattern_timer.stop()
stop_timer(timer) == -1

\* if not self.pattern_detection_active: self.no_pattern_timer.start(3000)
arm_timer(active, timer) == IF ~active THEN NO_PATTERN_TIMEOUT_MS ELSE timer

\* an empty batch: "if not voltages: return"
SampleEmpty ==
    /\ scanning
    /\ voltages' = "empty"
    /\ gain_calls' = 0
    /\ set_gain_failed' = FALSE
    /\ batches_read' = batches_read + 1
    /\ UNCHANGED << scanning, continuous_checkbox, stop_shots, shot_stale, channel_gains,
                    consecutive_cycles, is_locked, pattern_detection_active,
                    no_pattern_timer, status_label, sample_buffer,
                    continuous_sample_buffer, continuous_wavelength_cycle,
                    cycle_timestamps, data, pattern_result, graph_due, silence_ms >>

\* a batch in which a pattern is detected
SampleDetected(batch, set_gain_ok) ==
    LET result == Detection[batch]
        cycle  == continuous_wavelength_cycle + 1
        st == process_cycles([ sb |-> sample_buffer, gain |-> channel_gains,
                               csb |-> continuous_append(continuous_sample_buffer,
                                                         cycle, batch),
                               calls |-> 0, failed |-> FALSE ],
                             result.all_valid_cycles, 0, batch, set_gain_ok)
    IN  /\ scanning
        /\ Samples[batch] # <<>>
        /\ result.detected
        /\ voltages' = batch
        /\ pattern_result' = result
        /\ continuous_wavelength_cycle' = cycle
        /\ no_pattern_timer' = stop_timer(no_pattern_timer)
        /\ pattern_detection_active' = FALSE
        /\ silence_ms' = -1
        /\ sample_buffer' = st.sb
        /\ channel_gains' = st.gain
        /\ continuous_sample_buffer' = st.csb
        /\ gain_calls' = st.calls
        /\ set_gain_failed' = st.failed
        /\ cycle_timestamps' = Append(cycle_timestamps, 0)
        /\ consecutive_cycles' = consecutive_cycles + 1
        /\ is_locked' = lock_after(consecutive_cycles + 1, is_locked)
        /\ status_label' = FALSE
        /\ batches_read' = batches_read + 1
        /\ UNCHANGED << scanning, continuous_checkbox, stop_shots, shot_stale, data, graph_due >>

\* a batch in which no pattern is detected
SampleNotDetected(batch, set_gain_ok) ==
    LET result == Detection[batch]
        cycle  == continuous_wavelength_cycle + 1
        adj == auto_adjust_gain(channel_gains,
                                continuous_append(continuous_sample_buffer, cycle, batch),
                                batch, set_gain_ok)
    IN  /\ scanning
        /\ Samples[batch] # <<>>
        /\ ~result.detected
        /\ voltages' = batch
        /\ pattern_result' = result
        /\ continuous_wavelength_cycle' = cycle
        /\ consecutive_cycles' = 0
        /\ is_locked' = FALSE
        /\ no_pattern_timer' = arm_timer(pattern_detection_active, no_pattern_timer)
        /\ pattern_detection_active' = TRUE
        /\ silence_ms' = IF ~pattern_detection_active THEN 0 ELSE silence_ms
        /\ channel_gains' = adj.gain
        /\ continuous_sample_buffer' = adj.csb
        /\ gain_calls' = 1
        /\ set_gain_failed' = adj.failed
        /\ batches_read' = batches_read + 1
        /\ UNCHANGED << scanning, continuous_checkbox, stop_shots, shot_stale, status_label,
                        sample_buffer, cycle_timestamps, data, graph_due >>

sample_data(batch, set_gain_ok) ==
    \/ Samples[batch] = <<>> /\ SampleEmpty
    \/ SampleDetected(batch, set_gain_ok)
    \/ SampleNotDetected(batch, set_gain_ok)

----------------------------------------------------------------------------
(* The clock and the timers.  Time advances by one graph-timer period; a   *)
(* timer whose time is up has its handler run before the clock advances    *)
(* again.  Ages of cycle timestamps are in seconds and stop growing once   *)
(* they exceed every limit they are compared with.                         *)

AGE_CAP == STALE_PATTERN_SEC + 1
SILENCE_CAP == NO_PATTERN_TIMEOUT_MS + GRAPH_TIMER_MS

Tick ==
    /\ scanning
    /\ ~graph_due
    /\ no_pattern_timer = -1 \/ no_pattern_timer >= GRAPH_TIMER_MS
    /\ \A i \in 1..Len(stop_shots) : stop_shots[i] >= GRAPH_TIMER_MS
    /\ graph_due' = TRUE
    /\ no_pattern_timer' = IF no_pattern_timer = -1 THEN -1
                           ELSE no_pattern_timer - GRAPH_TIMER_MS
    /\ stop_shots' = [i \in 1..Len(stop_shots) |-> stop_shots[i] - GRAPH_TIMER_MS]
    /\ cycle_timestamps' = [i \in 1..Len(cycle_timestamps) |->
                               Min(cycle_timestamps[i] + 1, AGE_CAP)]
    /\ silence_ms' = IF silence_ms = -1 THEN -1
                     ELSE Min(silence_ms + GRAPH_TIMER_MS, SILENCE_CAP)
    /\ UNCHANGED << scanning, continuous_checkbox, shot_stale, channel_gains,
                    consecutive_cycles,
                    is_locked, pattern_detection_active, status_label, sample_buffer,
                    continuous_sample_buffer, continuous_wavelength_cycle, data,
                    voltages, pattern_result, gain_calls, set_gain_failed,
                    batches_read >>

\* a variant of show_no_pattern_detected: the flag that lets the next batch
\* arm the timer again is left set
show_no_pattern_detected_once ==
    /\ no_pattern_timer = 0
    /\ no_pattern_timer' = -1
    /\ status_label' = TRUE
    /\ silence_ms' = -1
    /\ UNCHANGED << scanning, continuous_checkbox, stop_shots, shot_stale, channel_gains,
                    consecutive_cycles, is_locked, pattern_detection_active,
                    sample_buffer, continuous_sample_buffer,
                    continuous_wavelength_cycle, cycle_timestamps, data, voltages,
                    pattern_result, gain_calls, set_gain_failed, graph_due,
                    batches_read >>

\* no_pattern_timer times out
show_no_pattern_detected ==
    /\ no_pattern_timer = 0
    /\ no_pattern_timer' = -1
    /\ status_label' = TRUE
    /\ pattern_detection_active' = FALSE
    /\ silence_ms' = -1
    /\ UNCHANGED << scanning, continuous_checkbox, stop_shots, shot_stale, channel_gains,
                    consecutive_cycles, is_locked, sample_buffer,
                    continuous_sample_buffer, continuous_wavelength_cycle,
                    cycle_timestamps, data, voltages, pattern_result, gain_calls,
                    set_gain_failed, graph_due, batches_read >>

----------------------------------------------------------------------------
(* update_graph_from_buffer, the graph_timer handler *)

\* a variant of get_dynamic_averaging_window: the default, whatever the rate
fixed_averaging_window(stamps) == DEFAULT_WINDOW

get_dynamic_averaging_window(stamps) ==
    LET cycles_in_last_second ==
            Cardinality({i \in 1..Len(stamps) : stamps[i] <= WINDOW_SEC})
    IN  IF cycles_in_last_second > 0
        THEN Max(MIN_WINDOW, Min(MAX_WINDOW, cycles_in_last_second * PULSES_PER_CYCLE))
        ELSE DEFAULT_WINDOW

recent_pattern_detection(stamps) ==
    stamps # <<>> /\ stamps[Len(stamps)] < RECENT_PATTERN_SEC

\* a variant of clear_stale: nothing is ever cleared
keep_stale(sb, stamps) == sb

\* the sample_buffer after the stale check
clear_stale(sb, stamps) ==
    IF ~recent_pattern_detection(stamps) /\ stamps # <<>>
       /\ stamps[Len(stamps)] > STALE_PATTERN_SEC
    THEN [param \in PARAMETERS |-> <<>>]
    ELSE sb

\* which branch of the per-wavelength chain is taken
report_source(sb_p, csb_p, stamps) ==
    IF ~recent_pattern_detection(stamps) /\ csb_p # <<>> THEN "continuous"
    ELSE IF sb_p # <<>> THEN "pattern"
    ELSE IF csb_p # <<>> THEN "continuous"
    ELSE "last"

\* the value appended to self.data[param]
report_value(sb_p, csb_p, data_p, stamps) ==
    LET src == report_source(sb_p, csb_p, stamps)
    IN  IF src = "continuous" THEN Mean(csb_p)
        ELSE IF src = "pattern"
             THEN Mean(LastN(sb_p, get_dynamic_averaging_window(stamps)))
        ELSE IF data_p # <<>> THEN data_p[Len(data_p)]
        ELSE 0

\* the continuous buffer of one wavelength after the report
report_truncate(sb_p, csb_p, stamps) ==
    IF report_source(sb_p, csb_p, stamps) = "continuous" /\ Len(csb_p) > CONTINUOUS_CAP
    THEN LastN(csb_p, CONTINUOUS_KEEP)
    ELSE csb_p

update_graph_from_buffer ==
    LET sb == clear_stale(sample_buffer, cycle_timestamps)
    IN  /\ graph_due
        /\ graph_due' = FALSE
        /\ sample_buffer' = sb
        /\ data' = [param \in PARAMETERS |->
                       << report_value(sb[param], continuous_sample_buffer[param],
                                       data[param], cycle_timestamps) >>]
        /\ continuous_sample_buffer' =
               [param \in PARAMETERS |->
                   report_truncate(sb[param], continuous_sample_buffer[param],
                                   cycle_timestamps)]
        /\ UNCHANGED << scanning, continuous_checkbox, stop_shots, shot_stale, channel_gains,
                        consecutive_cycles, is_locked, pattern_detection_active,
                        no_pattern_timer, status_label, continuous_wavelength_cycle,
                        cycle_timestamps, voltages, pattern_result, gain_calls,
                        set_gain_failed, silence_ms, batches_read >>

----------------------------------------------------------------------------
(* Starting and stopping a scan *)

\* what stop_scan changes
StopEffects ==
    /\ scanning' = FALSE
    /\ no_pattern_timer' = -1
    /\ graph_due' = FALSE

stop_scan_unchanged ==
    UNCHANGED << batches_read, silence_ms, set_gain_failed, continuous_checkbox, channel_gains, consecutive_cycles,
                 is_locked,
                 pattern_detection_active, status_label, sample_buffer,
                 continuous_sample_buffer, continuous_wavelength_cycle,
                 cycle_timestamps, data, voltages, pattern_result, gain_calls >>

\* the SCAN button
toggle_scan ==
    \/ /\ ~scanning
       /\ consecutive_cycles' = 0
       /\ is_locked' = FALSE
       /\ cycle_timestamps' = <<>>
       /\ continuous_wavelength_cycle' = 0
       /\ continuous_sample_buffer' = empty_buffers
       /\ no_pattern_timer' = -1
       /\ pattern_detection_active' = FALSE
       /\ silence_ms' = -1
       /\ graph_due' = FALSE
       /\ scanning' = TRUE
       /\ stop_shots' = IF ~continuous_checkbox
                        THEN Append(stop_shots, SINGLE_SHOT_MS) ELSE stop_shots
       /\ shot_stale' = IF ~continuous_checkbox
                        THEN Append(shot_stale, FALSE) ELSE shot_stale
       /\ UNCHANGED << continuous_checkbox, channel_gains, status_label, sample_buffer,
                       data, voltages, pattern_result, gain_calls, set_gain_failed,
                       batches_read >>
    \/ /\ scanning
       /\ StopEffects
       /\ UNCHANGED stop_shots
       /\ shot_stale' = [j \in 1..Len(shot_stale) |-> TRUE]
       /\ stop_scan_unchanged

\* a single-shot timer calls stop_scan; i is the shot whose time is up
single_shot_stop(i) ==
    /\ i \in 1..Len(stop_shots)
    /\ stop_shots[i] < GRAPH_TIMER_MS
    /\ stop_shots' = SubSeq(stop_shots, 1, i - 1) \o SubSeq(stop_shots, i + 1, Len(stop_shots))
    /\ shot_stale' = [j \in 1..(Len(shot_stale) - 1) |-> TRUE]
    /\ StopEffects
    /\ stop_scan_unchanged

\* the "Continuous mode" checkbox changes state
on_continuous_mode_changed ==
    /\ continuous_checkbox' = ~continuous_checkbox
    /\ stop_shots' = IF continuous_checkbox /\ scanning
                     THEN Append(stop_shots, SINGLE_SHOT_MS) ELSE stop_shots
    /\ shot_stale' = IF continuous_checkbox /\ scanning
                     THEN Append(shot_stale, FALSE) ELSE shot_stale
    /\ UNCHANGED << scanning, channel_gains, consecutive_cycles, is_locked,
                    pattern_detection_active, no_pattern_timer, status_label,
                    sample_buffer, continuous_sample_buffer,
                    continuous_wavelength_cycle, cycle_timestamps, data, voltages,
                    pattern_result, gain_calls, set_gain_failed, graph_due, silence_ms,
                    batches_read >>

----------------------------------------------------------------------------
(* The state machine *)

MaxBatches == 3
MaxShots == 1

NoResult == [ detected |-> FALSE, score |-> 0, quality |-> 0, pulse_count |-> 0,
              high_samples |-> 0, voltage_stats |-> [ mean |-> 0, min |-> 0, max |-> 0 ] ]

Init ==
    /\ scanning = FALSE
    /\ continuous_checkbox = FALSE
    /\ stop_shots = <<>>
    /\ shot_stale = <<>>
    /\ channel_gains = set_gain(gain_steps[1])
    /\ consecutive_cycles = 0
    /\ is_locked = FALSE
    /\ pattern_detection_active = FALSE
    /\ no_pattern_timer = -1
    /\ status_label = FALSE
    /\ sample_buffer = empty_buffers
    /\ continuous_sample_buffer = empty_buffers
    /\ continuous_wavelength_cycle = 0
    /\ cycle_timestamps = <<>>
    /\ data = empty_buffers
    /\ voltages = "empty"
    /\ pattern_result = NoResult
    /\ gain_calls = 0
    /\ set_gain_failed = FALSE
    /\ graph_due = FALSE
    /\ silence_ms = -1
    /\ batches_read = 0

\* the bounds on one exploration: batches read and pending single shots
Bounded ==
    /\ batches_read' <= MaxBatches
    /\ Len(stop_shots') <= MaxShots

Next ==
    \/ toggle_scan /\ Bounded
    \/ on_continuous_mode_changed /\ Bounded
    \/ \E i \in 1..MaxShots : single_shot_stop(i)
    \/ \E batch \in Batches, set_gain_ok \in BOOLEAN :
           sample_data(batch, set_gain_ok) /\ Bounded
    \/ Tick
    \/ show_no_pattern_detected
    \/ update_graph_from_buffer

Spec == Init /\ [][Next]_vars

\* Single-measurement scans (the checkbox stays unchecked) with more batches:
\* long enough to walk the gain ladder from end to end and back
GainBatches == { "low", "fiveloud", "pattern" }
MaxGainBatches == 4

GainBounded ==
    /\ batches_read' <= MaxGainBatches
    /\ Len(stop_shots') <= MaxShots

GainNext ==
    \/ toggle_scan /\ GainBounded
    \/ \E i \in 1..MaxShots : single_shot_stop(i)
    \/ \E batch \in GainBatches, set_gain_ok \in BOOLEAN :
           sample_data(batch, set_gain_ok) /\ GainBounded
    \/ Tick
    \/ update_graph_from_buffer

GainSpec == Init /\ [][GainNext]_vars

\* A long scan in continuous mode with the pattern in every batch, the batches
\* arriving as fast as read_adc_batch(duration_ms=20) allows: the checkbox is
\* checked, the scan is started, and then BatchesPerTick batches are read in
\* every period of the graph timer
BATCH_DURATION_MS == 20
BatchesPerTick == GRAPH_TIMER_MS \div BATCH_DURATION_MS
MaxLongBatches == 610

\* detected batches read in the current period of the graph timer
batches_this_period ==
    Cardinality({i \in 1..Len(cycle_timestamps) : cycle_timestamps[i] = 0})

LongNext ==
    \/ ~scanning /\ ~continuous_checkbox /\ on_continuous_mode_changed
    \/ ~scanning /\ continuous_checkbox /\ toggle_scan
    \/ /\ ~graph_due
       /\ batches_this_period < BatchesPerTick
       /\ batches_read < MaxLongBatches
       /\ sample_data("pattern", TRUE)
    \/ batches_this_period = BatchesPerTick /\ Tick
    \/ update_graph_from_buffer

LongSpec == Init /\ [][LongNext]_vars

\* Scans whose batches hold more than one valid window of six pulses, next to
\* noise; adc.set_gain always returns
CycleBatches == { "eight", "late", "low" }

CycleNext ==
    \/ toggle_scan /\ Bounded
    \/ on_continuous_mode_changed /\ Bounded
    \/ \E i \in 1..MaxShots : single_shot_stop(i)
    \/ \E batch \in CycleBatches : sample_data(batch, TRUE) /\ Bounded
    \/ Tick
    \/ show_no_pattern_detected
    \/ update_graph_from_buffer

CycleSpec == Init /\ [][CycleNext]_vars

\* Single-measurement scans whose batches are all without a pattern: noise,
\* a steady level between the two gain thresholds, and five loud pulses
PolicyBatches == { "low", "mid", "fiveloud" }

PolicyNext ==
    \/ toggle_scan /\ GainBounded
    \/ \E i \in 1..MaxShots : single_shot_stop(i)
    \/ \E batch \in PolicyBatches, set_gain_ok \in BOOLEAN :
           sample_data(batch, set_gain_ok) /\ GainBounded
    \/ Tick
    \/ update_graph_from_buffer

PolicySpec == Init /\ [][PolicyNext]_vars

\* Single-measurement scans over batches that put the detector to the test:
\* windows that fail one criterion each, several valid windows in one batch,
\* samples at the threshold, a batch that ends high; adc.set_gain always
\* returns
DetectBatches == { "low", "mid", "late", "nine", "thin", "wide", "sparse", "gap", "edge" }
MaxDetectBatches == 3

DetectBounded ==
    /\ batches_read' <= MaxDetectBatches
    /\ Len(stop_shots') <= MaxShots

DetectNext ==
    \/ toggle_scan /\ DetectBounded
    \/ \E i \in 1..MaxShots : single_shot_stop(i)
    \/ \E batch \in DetectBatches : sample_data(batch, TRUE) /\ DetectBounded
    \/ Tick
    \/ update_graph_from_buffer

DetectSpec == Init /\ [][DetectNext]_vars

\* One scan in continuous mode that is long enough for the round robin to
\* wrap: the batches are the plain pattern or a steady level, neither of which
\* moves the gain, and the graph timer fires after every RoundBatchesPerTick
\* batches
RoundBatches == { "quiet", "mid" }
MaxRoundBatches == 8
RoundBatchesPerTick == 4

RoundNext ==
    \/ ~scanning /\ ~continuous_checkbox /\ on_continuous_mode_changed
    \/ ~scanning /\ continuous_checkbox /\ toggle_scan
    \/ /\ ~graph_due
       /\ batches_read < MaxRoundBatches
       /\ \E batch \in RoundBatches : sample_data(batch, TRUE)
    \/ /\ continuous_wavelength_cycle > 0
       /\ continuous_wavelength_cycle % RoundBatchesPerTick = 0
       /\ Tick
    \/ show_no_pattern_detected
    \/ update_graph_from_buffer

RoundSpec == Init /\ [][RoundNext]_vars

----------------------------------------------------------------------------
(* Properties *)

\* a step in which sample_data reads and processes a non-empty batch
BatchProcessed == batches_read' = batches_read + 1 /\ voltages' # "empty"

\* a step in which sample_data reads an empty batch
EmptyRead == batches_read' = batches_read + 1 /\ voltages' = "empty"

\* the named batch has a sample above the high threshold, or only samples
\* below the low one
HasLoudSample(batch) ==
    \E i \in 1..Len(Samples[batch]) : Abs(Samples[batch][i]) > THRESHOLD_HIGH
AllQuiet(batch) ==
    \A i \in 1..Len(Samples[batch]) : Abs(Samples[batch][i]) < THRESHOLD_LOW

\* C1: from UNLOCKED with the counter at 0, one processed batch with
\* detected = true leaves the state UNLOCKED with the counter at 1 and the
\* second one in a row makes it LOCKED; a processed batch with detected = false
\* makes the state UNLOCKED and the counter 0; no other step locks or counts.
C1_LockTransition ==
    [][ /\ (BatchProcessed /\ pattern_result'.detected /\ ~is_locked
                /\ consecutive_cycles = 0)
            => (~is_locked' /\ consecutive_cycles' = 1)
        /\ (BatchProcessed /\ pattern_result'.detected /\ ~is_locked
                /\ consecutive_cycles = 1)
            => (is_locked' /\ consecutive_cycles' = 2)
        /\ (BatchProcessed /\ ~pattern_result'.detected)
            => (~is_locked' /\ consecutive_cycles' = 0)
        /\ ~BatchProcessed
            => ((is_locked' => is_locked)
                /\ consecutive_cycles' \in {consecutive_cycles, 0}) ]_vars

\* three batches of one scan, the first two detected (and so locking), the
\* third not: unlocked again
C1_UnlockedAfterLock ==
    /\ scanning
    /\ continuous_wavelength_cycle = 3
    /\ Len(cycle_timestamps) = 2
    /\ ~pattern_result.detected
    /\ voltages # "empty"
    /\ ~is_locked
    /\ consecutive_cycles = 0

\* C2: an empty batch is treated as a batch with detected = false: the
\* counter is 0, the state UNLOCKED and the silence timer armed after it.
C2_EmptyBatchBreaksRun ==
    [][ EmptyRead => (/\ consecutive_cycles' = 0
                      /\ ~is_locked'
                      /\ pattern_detection_active'
                      /\ no_pattern_timer' >= 0) ]_vars

\* the step in which the armed timer times out and the signal is raised
PatternLostRaised ==
    /\ pattern_detection_active
    /\ ~pattern_detection_active'
    /\ UNCHANGED << batches_read, scanning >>

\* C3: the pattern-lost signal is raised when 3000 ms have passed since the
\* batch that armed the timer, and a batch with detected = false that arrives
\* while the timer is armed leaves the time it has left as it is.
C3_SilenceTimeout ==
    [][ /\ PatternLostRaised
            => (status_label' /\ no_pattern_timer = 0
                /\ silence_ms = NO_PATTERN_TIMEOUT_MS)
        /\ (BatchProcessed /\ ~pattern_result'.detected /\ pattern_detection_active)
            => (no_pattern_timer' = no_pattern_timer /\ pattern_detection_active')
        /\ (BatchProcessed /\ ~pattern_result'.detected /\ ~pattern_detection_active)
            => (no_pattern_timer' = NO_PATTERN_TIMEOUT_MS /\ silence_ms' = 0) ]_vars

\* three batches without a pattern in a scan that never detected one and
\* never raised the signal, and the timer armed by the first of them is due
C3_DueAfterThreeBatches ==
    /\ scanning
    /\ continuous_wavelength_cycle = 3
    /\ cycle_timestamps = <<>>
    /\ ~status_label
    /\ no_pattern_timer = 0
    /\ silence_ms = NO_PATTERN_TIMEOUT_MS

\* C4: after a batch with detected = true the silence timer is not armed, so
\* the timer only runs, and the signal is only raised, while the last
\* processed batch is one with detected = false.
C4_DetectionCancelsTimer ==
    pattern_result.detected => (no_pattern_timer = -1 /\ ~pattern_detection_active)

\* the second batch of a scan is detected and the first was not; the clock
\* has not advanced in this scan, so the timer was running when it arrived
C4_CancelledWhileArmed ==
    /\ scanning
    /\ data = empty_buffers
    /\ ~graph_due
    /\ continuous_wavelength_cycle = 2
    /\ consecutive_cycles = 1
    /\ voltages # "empty"
    /\ pattern_result.detected
    /\ no_pattern_timer = -1

\* C5, as the code has it: after a processed batch with detected = false
\* for which adc.set_gain did not raise, a gain of 4 is 2 if the batch has a
\* sample with |v| > 1.0 V, and a gain of 2 is 4 if all its samples have
\* |v| < 0.1 V.
C5_GainOutcome ==
    [][ (BatchProcessed /\ ~pattern_result'.detected /\ ~set_gain_failed')
        => /\ (channel_gains = 4 /\ HasLoudSample(voltages')) => channel_gains' = 2
           /\ (channel_gains = 2 /\ AllQuiet(voltages')) => channel_gains' = 4 ]_vars

\* a batch of five loud pulses has just taken the gain down to 2: it cleared
\* the continuous buffers, which a batch only does by changing the gain
C5_SteppedDown ==
    /\ scanning
    /\ continuous_wavelength_cycle > 0
    /\ voltages = "fiveloud"
    /\ ~set_gain_failed
    /\ continuous_sample_buffer = empty_buffers
    /\ channel_gains = 2

\* C5 as stated: the same outcome for every processed batch, whatever its
\* detection outcome.
C5_GainOutcomeAnyBatch ==
    [][ BatchProcessed
        => /\ (channel_gains = 4 /\ HasLoudSample(voltages')) => channel_gains' = 2
           /\ (channel_gains = 2 /\ AllQuiet(voltages')) => channel_gains' = 4 ]_vars

\* the processed cycles of a result that have a pulse voltage below 0.1 V
LowCycles(result) ==
    Cardinality({i \in 1..Min(MAX_CYCLES_PER_BATCH, Len(result.all_valid_cycles)) :
                    \E k \in 1..Len(result.all_valid_cycles[i].sorted_pulse_voltages) :
                        Abs(result.all_valid_cycles[i].sorted_pulse_voltages[k])
                            < THRESHOLD_LOW})

\* C6, as the code has it: auto_adjust_gain is called once for every
\* processed batch with detected = false; for a batch with detected = true it
\* is called once for each processed cycle that has a pulse voltage below
\* 0.1 V, and not otherwise.
C6_GainEvaluations ==
    [][ BatchProcessed
        => IF pattern_result'.detected
           THEN gain_calls' = LowCycles(pattern_result')
           ELSE gain_calls' = 1 ]_vars

\* a detected batch has been processed without a call of auto_adjust_gain
C6_DetectedWithoutCall ==
    /\ scanning
    /\ continuous_wavelength_cycle > 0
    /\ voltages = "pattern"
    /\ pattern_result.detected
    /\ gain_calls = 0

\* C6 as stated: auto_adjust_gain is called at least once for every processed
\* batch.
C6_OncePerBatch == [][ BatchProcessed => gain_calls' >= 1 ]_vars

\* the rung of a gain on the ladder, 0 if it is not on it
Rung(g) == IF \E i \in 1..4 : gain_values[i] = g
           THEN CHOOSE i \in 1..4 : gain_values[i] = g
           ELSE 0

\* C7: the gain is always 1, 2, 4 or 8; a step that reads no batch leaves it
\* alone and one that reads a batch moves it by at most one rung for each call
\* of auto_adjust_gain; a loud batch leaves a gain of 1 and a quiet batch a
\* gain of 8 as they are.
C7_GainLadder ==
    [][ /\ channel_gains \in {1, 2, 4, 8}
        /\ channel_gains' \in {1, 2, 4, 8}
        /\ IF batches_read' # batches_read
           THEN Abs(Rung(channel_gains') - Rung(channel_gains)) <= gain_calls'
           ELSE channel_gains' = channel_gains
        /\ (BatchProcessed /\ channel_gains = 1 /\ HasLoudSample(voltages'))
            => channel_gains' = 1
        /\ (BatchProcessed /\ channel_gains = 8 /\ AllQuiet(voltages'))
            => channel_gains' = 8 ]_vars

\* a quiet batch has been processed at a gain of 8: auto_adjust_gain was
\* called, adc.set_gain did not raise, and the continuous buffers were kept
C7_QuietAtTopRung ==
    /\ scanning
    /\ voltages = "low"
    /\ gain_calls = 1
    /\ ~set_gain_failed
    /\ continuous_sample_buffer # empty_buffers
    /\ channel_gains = 8

\* C8: the pattern-based history of a wavelength is never longer than the
\* cap of 100 (the code has no such cap of its own: the number is that of
\* the continuous history).
C8_PatternHistoryCap ==
    \A param \in PARAMETERS : Len(sample_buffer[param]) <= CONTINUOUS_CAP

\* C9: the continuous history of a wavelength is never longer than the cap
\* of 100, also while the pattern is locked.
C9_ContinuousHistoryCap ==
    \A param \in PARAMETERS : Len(continuous_sample_buffer[param]) <= CONTINUOUS_CAP

\* the number of pulse clusters of every batch
ClusterCount ==
    [ low      |-> Len(pulse_clusters(Samples.low)),
      mid      |-> Len(pulse_clusters(Samples.mid)),
      fiveloud |-> Len(pulse_clusters(Samples.fiveloud)),
      pattern  |-> Len(pulse_clusters(Samples.pattern)),
      quiet    |-> Len(pulse_clusters(Samples.quiet)),
      eight    |-> Len(pulse_clusters(Samples.eight)),
      late     |-> Len(pulse_clusters(Samples.late)) ]

\* C10: for a batch with fewer than six pulse clusters the result of
\* detect_cycle_in_batch has detected = false and none of the sorted pulse
\* fields.
C10_FewClusters ==
    (voltages # "empty" /\ ClusterCount[voltages] < 6)
        => /\ ~pattern_result.detected
           /\ DOMAIN pattern_result \cap { "sorted_pulse_times", "sorted_pulse_widths",
                                           "sorted_pulse_voltages" } = {}

\* the batch of five loud pulses has been processed
C10_FivePulses ==
    /\ scanning
    /\ continuous_wavelength_cycle > 0
    /\ voltages = "fiveloud"
    /\ ClusterCount[voltages] = 5
    /\ pattern_result.high_samples = 0
    /\ ~pattern_result.detected

\* valid_cycles before the sort, of every non-empty batch, computed once
Candidates ==
    [ low      |-> candidate_cycles(Samples.low, pulse_clusters(Samples.low)),
      mid      |-> candidate_cycles(Samples.mid, pulse_clusters(Samples.mid)),
      fiveloud |-> candidate_cycles(Samples.fiveloud, pulse_clusters(Samples.fiveloud)),
      pattern  |-> candidate_cycles(Samples.pattern, pulse_clusters(Samples.pattern)),
      quiet    |-> candidate_cycles(Samples.quiet, pulse_clusters(Samples.quiet)),
      eight    |-> candidate_cycles(Samples.eight, pulse_clusters(Samples.eight)),
      late     |-> candidate_cycles(Samples.late, pulse_clusters(Samples.late)) ]

\* candidate i of cands has the highest quality, and the smallest start_idx
\* of those that have it
IsBest(cands, i) ==
    \A j \in 1..Len(cands) :
        /\ cands[j].quality <= cands[i].quality
        /\ cands[j].quality = cands[i].quality => cands[i].start_idx <= cands[j].start_idx

\* C11: the result of a batch has detected = true exactly if the batch has a
\* valid candidate, and then its quality, score and sorted pulse fields are
\* those of one candidate: the one of the highest quality, and of the smallest
\* start_idx among those of the highest quality.
C11_Selection ==
    voltages # "empty"
        => /\ pattern_result.detected <=> Candidates[voltages] # <<>>
           /\ pattern_result.detected
                => \E i \in 1..Len(Candidates[voltages]) :
                      /\ IsBest(Candidates[voltages], i)
                      /\ pattern_result.quality = Candidates[voltages][i].quality
                      /\ pattern_result.score = Candidates[voltages][i].quality
                      /\ pattern_result.sorted_pulse_times
                            = Candidates[voltages][i].sorted_pulse_times
                      /\ pattern_result.sorted_pulse_widths
                            = Candidates[voltages][i].sorted_pulse_widths
                      /\ pattern_result.sorted_pulse_voltages
                            = Candidates[voltages][i].sorted_pulse_voltages
                      /\ pattern_result.all_valid_cycles[1] = Candidates[voltages][i]

\* the batch of seven pulses has been processed: two valid candidates, and
\* the one promoted is the second one found
C11_SecondWindowPromoted ==
    /\ scanning
    /\ voltages = "late"
    /\ Len(Candidates[voltages]) = 2
    /\ Candidates[voltages][1].quality < Candidates[voltages][2].quality
    /\ pattern_result.detected
    /\ pattern_result.all_valid_cycles[1].start_idx = 1

\* the sorted pulse fields of a cycle are six pulses in strictly increasing
\* time, each with the width and the voltage of its own cluster
SortedCycle(c) ==
    /\ Len(c.sorted_pulse_times) = 6
    /\ Len(c.sorted_pulse_widths) = 6
    /\ Len(c.sorted_pulse_voltages) = 6
    /\ \A k \in 1..5 : c.sorted_pulse_times[k] < c.sorted_pulse_times[k + 1]
    /\ \A k \in 1..6 : \E j \in 1..Len(c.pulses) :
            /\ c.sorted_pulse_times[k] = c.pulses[j]
            /\ c.sorted_pulse_widths[k] = c.widths[j]
            /\ c.sorted_pulse_voltages[k] = c.voltages[j]

\* C12: the sorted_pulse_times of a detected batch are six strictly
\* increasing times, and its sorted widths and voltages are in the same order:
\* entry k of each belongs to the cluster of entry k of the times.
C12_SortedPulses ==
    (voltages # "empty" /\ pattern_result.detected)
        => /\ SortedCycle(pattern_result.all_valid_cycles[1])
           /\ pattern_result.sorted_pulse_times
                = pattern_result.all_valid_cycles[1].sorted_pulse_times
           /\ pattern_result.sorted_pulse_widths
                = pattern_result.all_valid_cycles[1].sorted_pulse_widths
           /\ pattern_result.sorted_pulse_voltages
                = pattern_result.all_valid_cycles[1].sorted_pulse_voltages

\* the batch of eight pulses has been processed: its first six pulses, of
\* six different voltages, are the sorted pulses of the result
C12_EightPulses ==
    /\ scanning
    /\ voltages = "eight"
    /\ pattern_result.detected
    /\ pattern_result.sorted_pulse_times = <<1, 7, 13, 19, 25, 31>>
    /\ pattern_result.sorted_pulse_voltages = <<304, 400, 504, 352, 448, 384>>

ReportStep == graph_due /\ ~graph_due' /\ scanning'

\* detections recorded in the trailing second
RecentDetections(stamps) == Cardinality({i \in 1..Len(stamps) : stamps[i] <= 1})

\* the window for k detections in the trailing second
ClaimedWindow(k) == IF k = 0 THEN 10 ELSE Max(3, Min(30, 6 * k))

ClaimedOutput(sb_p, csb_p, data_p, stamps) ==
    IF stamps # <<>> /\ stamps[Len(stamps)] < 2 /\ sb_p # <<>>
    THEN Mean(LastN(sb_p, ClaimedWindow(RecentDetections(stamps))))
    ELSE IF csb_p # <<>> THEN Mean(csb_p)
    ELSE IF data_p # <<>> THEN data_p[Len(data_p)]
    ELSE 0

\* C15: at a report in a scan that has detected a pattern, the output for a
\* wavelength is the mean of the last window entries of its pattern-based
\* history if the last detection is less than 2 s old and that history is not
\* empty, and otherwise the mean of its continuous history or, if that is
\* empty, the value reported last, or 0.
C15_OutputSource ==
    [][ (ReportStep /\ cycle_timestamps # <<>>)
        => \A param \in PARAMETERS :
              data'[param] = << ClaimedOutput(sample_buffer[param],
                                              continuous_sample_buffer[param],
                                              data[param], cycle_timestamps) >> ]_vars

\* the continuous histories with the mean of the batch appended to the
\* history whose turn it is after `cycle` batches
WithBatchMean(csb, cycle, batch) ==
    [param \in PARAMETERS |->
        IF param = (cycle % 6) + 1 THEN Append(csb[param], BatchMean[batch])
        ELSE csb[param]]

\* nothing has been removed from the pattern-based histories in the step
PatternHistoryKept ==
    \A param \in PARAMETERS :
        /\ Len(sample_buffer'[param]) >= Len(sample_buffer[param])
        /\ SubSeq(sample_buffer'[param], 1, Len(sample_buffer[param]))
             = sample_buffer[param]

\* C16: a processed batch that changes the gain leaves all six continuous
\* histories empty and removes nothing from the pattern-based histories; one
\* that does not change the gain leaves the continuous histories as they were
\* but for the mean of the batch; in both cases the lock state and the counter
\* are what the outcome of the detection alone makes them.
C16_GainChangeFrame ==
    [][ BatchProcessed
        => /\ channel_gains' # channel_gains
                => continuous_sample_buffer' = [param \in PARAMETERS |-> <<>>]
           /\ channel_gains' = channel_gains
                => continuous_sample_buffer'
                     = WithBatchMean(continuous_sample_buffer,
                                     continuous_wavelength_cycle, voltages')
           /\ PatternHistoryKept
           /\ ~pattern_result'.detected
                => (sample_buffer' = sample_buffer /\ ~is_locked'
                    /\ consecutive_cycles' = 0)
           /\ pattern_result'.detected
                => (consecutive_cycles' = consecutive_cycles + 1
                    /\ (is_locked' <=> (is_locked \/ consecutive_cycles' >= 2)))
      ]_vars

\* a batch of noise has doubled the gain in a scan that had detected the
\* pattern: the continuous histories are empty, the pattern-based ones are not
C16_ClearedByGainChange ==
    /\ scanning
    /\ voltages = "low"
    /\ gain_calls = 1
    /\ ~set_gain_failed
    /\ channel_gains = 2
    /\ cycle_timestamps # <<>>
    /\ continuous_sample_buffer = empty_buffers
    /\ \A param \in PARAMETERS : sample_buffer[param] # <<>>

\* C17: when adc.set_gain raises in a processed batch, the gain is
\* unchanged, no history is cleared and the batch is processed to its end;
\* the next batch that asks for the same step makes the call again, so that
\* it either raises again or changes the gain.
C17_SetGainFailure ==
    [][ BatchProcessed
        => /\ set_gain_failed'
                => /\ channel_gains' = channel_gains
                   /\ continuous_sample_buffer'
                        = WithBatchMean(continuous_sample_buffer,
                                        continuous_wavelength_cycle, voltages')
                   /\ PatternHistoryKept
                   /\ continuous_wavelength_cycle' = continuous_wavelength_cycle + 1
                   /\ pattern_detection_active'
           /\ (set_gain_failed /\ voltages' = voltages /\ ~set_gain_failed')
                => channel_gains' # channel_gains ]_vars

\* adc.set_gain has raised while the second batch of noise in a row was
\* processed: the gain is still 1 and both means are in the continuous
\* histories
C17_FailedStepUp ==
    /\ scanning
    /\ voltages = "low"
    /\ set_gain_failed
    /\ gain_calls = 1
    /\ channel_gains = 1
    /\ cycle_timestamps = <<>>
    /\ continuous_wavelength_cycle = 2
    /\ continuous_sample_buffer[1] # <<>>
    /\ continuous_sample_buffer[2] # <<>>

\* the named batch has a sample below the low threshold
HasQuietSample(batch) ==
    \E i \in 1..Len(Samples[batch]) : Abs(Samples[batch][i]) < THRESHOLD_LOW

\* C18: one call of auto_adjust_gain in which adc.set_gain does not raise
\* takes the gain down one rung (not below 1) if the batch has a sample with
\* |v| > 1.0 V; if it has none, up one rung (not above 8) if it has a sample
\* with |v| < 0.1 V; and leaves it alone otherwise.  A batch with a sample of
\* each kind takes the gain down.
C18_PolicyPriority ==
    [][ (BatchProcessed /\ ~pattern_result'.detected /\ ~set_gain_failed')
        => IF HasLoudSample(voltages')
           THEN Rung(channel_gains') = Max(Rung(channel_gains) - 1, 1)
           ELSE IF HasQuietSample(voltages')
                THEN Rung(channel_gains') = Min(Rung(channel_gains) + 1, 4)
                ELSE channel_gains' = channel_gains ]_vars

\* the batch of five loud pulses, which also has samples below 0.1 V, has
\* been processed at a gain of 4: the gain is 2
C18_LoudAndQuietStepsDown ==
    /\ scanning
    /\ voltages = "fiveloud"
    /\ HasLoudSample(voltages)
    /\ HasQuietSample(voltages)
    /\ continuous_wavelength_cycle = 3
    /\ gain_calls = 1
    /\ ~set_gain_failed
    /\ channel_gains = 2
    /\ continuous_sample_buffer = empty_buffers

\* C19: a report made when the last detection is more than 5 s old empties
\* every pattern-based history before the outputs are computed, so that no
\* output is computed from one; a report made when it is at most 5 s old, or
\* when the scan has no detection, leaves the pattern-based histories as they
\* are.
C19_StaleClearing ==
    [][ ReportStep
        => IF cycle_timestamps # <<>> /\ cycle_timestamps[Len(cycle_timestamps)] > 5
           THEN /\ sample_buffer' = [param \in PARAMETERS |-> <<>>]
                /\ \A param \in PARAMETERS :
                      data'[param]
                        = << IF continuous_sample_buffer[param] # <<>>
                             THEN Mean(continuous_sample_buffer[param])
                             ELSE IF data[param] # <<>> THEN data[param][Len(data[param])]
                             ELSE 0 >>
           ELSE sample_buffer' = sample_buffer ]_vars

\* a report has been made 6 s or more after the only detection of the scan,
\* whose pulses had all been reported: the pattern-based histories are empty
C19_ClearedAfterSixSeconds ==
    /\ scanning
    /\ ~graph_due
    /\ Len(cycle_timestamps) = 1
    /\ cycle_timestamps[1] > 5
    /\ pattern_result.detected
    /\ sample_buffer = empty_buffers
    /\ \A param \in PARAMETERS : data[param] # <<>>

StoppedByShot(i) ==
    /\ scanning
    /\ ~scanning'
    /\ i \in 1..Len(stop_shots)
    /\ stop_shots[i] < GRAPH_TIMER_MS
    /\ Len(stop_shots') = Len(stop_shots) - 1

\* C30: a running scan is stopped only by the SCAN button or by a single shot
\* that was scheduled during this same scan (at its start in single-measurement
\* mode, or when continuous mode was un-checked while it ran); a single shot
\* left over from a scan that has been stopped never stops a later scan.
C30_OwnShotOnly ==
    [][ \A i \in 1..MaxShots : StoppedByShot(i) => ~shot_stale[i] ]_vars

\* the step in which the SCAN button starts a scan
ScanStarted == ~scanning /\ scanning'

\* C29: starting a scan resets the lock state, the counter, the silence timer,
\* the detection timestamps and the continuous histories, and no report of the
\* new scan is computed from pattern-based history appended during an earlier
\* scan: as long as the new scan has detected nothing, a report is the mean of
\* the wavelength's continuous history or, if that is empty, the value
\* reported last.
C29_FreshScan ==
    [][ /\ ScanStarted
            => /\ ~is_locked'
               /\ consecutive_cycles' = 0
               /\ no_pattern_timer' = -1
               /\ ~pattern_detection_active'
               /\ cycle_timestamps' = <<>>
               /\ continuous_sample_buffer' = empty_buffers
               /\ continuous_wavelength_cycle' = 0
        /\ ReportStep /\ cycle_timestamps = <<>>
            => \A param \in PARAMETERS :
                   data'[param] =
                       << IF continuous_sample_buffer[param] # <<>>
                          THEN Mean(continuous_sample_buffer[param])
                          ELSE IF data[param] # <<>> THEN data[param][Len(data[param])]
                          ELSE 0 >> ]_vars

\* the step in which the handler of the expired silence timer runs
TimerFired ==
    /\ scanning
    /\ no_pattern_timer = 0
    /\ no_pattern_timer' = -1
    /\ UNCHANGED << batches_read, scanning >>

\* C25: when the silence timer fires, the pattern-lost indication is raised
\* and the timer is disarmed; the next processed batch without a pattern arms
\* it again for a full 3000 ms and leaves the indication as it is, so that
\* under lasting silence the signal is raised again and again; a raised
\* indication is cleared only by a batch in which a pattern is detected.
C25_RearmAfterExpiry ==
    [][ /\ TimerFired
            => /\ status_label'
               /\ ~pattern_detection_active'
        /\ (BatchProcessed /\ ~pattern_result'.detected /\ ~pattern_detection_active)
            => /\ no_pattern_timer' = NO_PATTERN_TIMEOUT_MS
               /\ pattern_detection_active'
               /\ status_label' = status_label
        /\ (status_label /\ ~status_label')
            => BatchProcessed /\ pattern_result'.detected ]_vars

\* the indication is raised from an earlier expiry, a later batch without a
\* pattern has armed the timer again, and its 3000 ms have passed once more
C25_DueAgain ==
    /\ scanning
    /\ status_label
    /\ pattern_detection_active
    /\ no_pattern_timer = 0
    /\ silence_ms = NO_PATTERN_TIMEOUT_MS
    /\ ~pattern_result.detected

\* C26: the state is LOCKED exactly when the counter of consecutive detections
\* is 2 or more; while the silence timer is armed (so whenever the
\* pattern-lost signal is raised) the state is UNLOCKED and the counter is 0.
C26_LockIffCounter ==
    /\ is_locked <=> consecutive_cycles >= LOCK_THRESHOLD
    /\ no_pattern_timer # -1 => ~is_locked /\ consecutive_cycles = 0
    /\ pattern_detection_active => ~is_locked /\ consecutive_cycles = 0

\* three batches in a row with a pattern: LOCKED at a counter of 3
C26_LockedAtThree ==
    /\ is_locked
    /\ consecutive_cycles = 3
    /\ no_pattern_timer = -1

\* C21: a processed batch with a pattern appends to each of the six
\* pattern-based histories one value for each of its first three valid cycles
\* (for all of them if there are fewer), the cycles being in descending order
\* of quality with the promoted best first; the value for wavelength i is
\* the voltage of pulse i of the cycle divided by the gain.  Whatever the
\* number of cycles, the counter of consecutive detections grows by exactly
\* one and exactly one detection timestamp is recorded.
C21_MultiCycle ==
    [][ (BatchProcessed /\ pattern_result'.detected)
        => LET cycles == pattern_result'.all_valid_cycles
               used == IF pattern_result'.total_valid_cycles < 3
                       THEN pattern_result'.total_valid_cycles ELSE 3
           IN  /\ pattern_result'.total_valid_cycles = Len(cycles)
               /\ pattern_result'.sorted_pulse_voltages = cycles[1].sorted_pulse_voltages
               /\ pattern_result'.quality = cycles[1].quality
               /\ \A i \in 1..(Len(cycles) - 1) : cycles[i].quality >= cycles[i + 1].quality
               /\ \A param \in PARAMETERS :
                      sample_buffer'[param]
                        = sample_buffer[param]
                            \o [i \in 1..used |->
                                   cycles[i].sorted_pulse_voltages[param] \div channel_gains]
               /\ consecutive_cycles' = consecutive_cycles + 1
               /\ cycle_timestamps' = Append(cycle_timestamps, 0) ]_vars

\* a batch with four valid cycles has been processed at a gain of 2: three
\* values in each history, the halves of the pulse voltages of the first three
\* cycles, and a counter of one
C21_ThreeOfFour ==
    /\ voltages = "nine"
    /\ pattern_result.total_valid_cycles = 4
    /\ channel_gains = 2
    /\ sample_buffer[1] = <<152, 200, 252>>
    /\ sample_buffer[6] = <<192, 160, 208>>
    /\ consecutive_cycles = 1
    /\ Len(cycle_timestamps) = 1

\* pulse_clusters of every batch of DetectSpec, computed once
Clusters == [batch \in DetectBatches |-> pulse_clusters(Samples[batch])]

\* a window of six pulses, given the batch length n, the centre times cp and
\* the widths cw in half samples (10 / n ms each), is valid as claimed: span
\* within 2.0 and 6.0 ms, mean width within 0.1 and 0.5 ms, every spacing
\* within 0.1 and 2.0 ms
ClaimedValid(n, cp, cw) ==
    LET span6 == 6 * (cp[6] - cp[1]) + SumSeq(cw)
    IN  /\ 12 * n <= 10 * span6 /\ 10 * span6 <= 36 * n
        /\ 6 * n <= 100 * SumSeq(cw) /\ 100 * SumSeq(cw) <= 30 * n
        /\ \A i \in 1..5 :
               /\ n <= 100 * (cp[i + 1] - cp[i])
               /\ 100 * (cp[i + 1] - cp[i]) <= 20 * n

\* the valid cycles found in the batch last processed
FoundCycles == IF pattern_result.detected THEN pattern_result.all_valid_cycles ELSE <<>>

\* C22: for every starting offset at which six consecutive clusters are
\* available, the window of these six is among the valid cycles of the batch
\* exactly if its span is within 2.0 and 6.0 ms, its mean pulse width within
\* 0.1 and 0.5 ms and every one of its five spacings within 0.1 and 2.0 ms;
\* no other window is among them, and the batch has detected = true exactly
\* if there is one.
C22_WindowValidity ==
    voltages \in DetectBatches
        => LET n  == Len(Samples[voltages])
               cl == Clusters[voltages]
               cp(start) == [k \in 1..6 |-> center_time(cl[start + k])]
               cw(start) == [k \in 1..6 |-> pulse_width(cl[start + k])]
           IN  /\ \A start \in 0..(Len(cl) - 6) :
                      ClaimedValid(n, cp(start), cw(start))
                        <=> \E i \in 1..Len(FoundCycles) :
                                /\ FoundCycles[i].start_idx = start
                                /\ FoundCycles[i].pulses = cp(start)
               /\ \A i \in 1..Len(FoundCycles) :
                      FoundCycles[i].start_idx \in 0..(Len(cl) - 6)
               /\ \A i, j \in 1..Len(FoundCycles) :
                      FoundCycles[i].start_idx = FoundCycles[j].start_idx => i = j
               /\ pattern_result.detected
                    => \E i \in 1..Len(FoundCycles) :
                          pattern_result.sorted_pulse_times = FoundCycles[i].sorted_pulse_times

\* a batch of seven pulses has been processed whose first window has a
\* spacing of 2.5 ms: the only valid cycle is the window at offset 1
C22_GapWindowRejected ==
    /\ voltages = "gap"
    /\ Len(Clusters.gap) = 7
    /\ pattern_result.detected
    /\ pattern_result.total_valid_cycles = 1
    /\ pattern_result.all_valid_cycles[1].start_idx = 1

\* the quality as claimed, times QSCALE, for an expected cycle duration of
\* num / den ms: cp and cw as in ClaimedValid
ClaimedQuality(n, cp, cw, num, den) ==
    LET span6 == 6 * (cp[6] - cp[1]) + SumSeq(cw)
        duration_err == (Abs(10 * den * span6 - 6 * n * num) * QSCALE) \div (6 * n * num)
        width_err == (Abs(1000 * SumSeq(cw) - 144 * n) * QSCALE) \div (144 * n)
        sp == [i \in 1..5 |-> cp[i + 1] - cp[i]]
        total == SumSeq(sp)
        squares == SumSeq([i \in 1..5 |-> sp[i] * sp[i]])
        std_over_mean == (ISqrt((5 * squares - total * total) * 10000) * (QSCALE \div 100))
                             \div total
        consistency == IF total > 0
                       THEN IF std_over_mean > QSCALE THEN 0 ELSE QSCALE - std_over_mean
                       ELSE 0
        sum == duration_err + width_err + (QSCALE - consistency)
    IN  IF sum \div 3 > QSCALE THEN 0 ELSE QSCALE - sum \div 3

\* C23 as stated: the quality of every valid cycle is
\* max(0, 1 - (duration_error + width_error + (1 - spacing_consistency)) / 3)
\* with duration_error measured against 3.9 ms, and lies within 0 and 1.
C23_QualityAgainstNominal ==
    voltages \in DetectBatches
        => \A i \in 1..Len(FoundCycles) :
               /\ FoundCycles[i].quality
                    = ClaimedQuality(Len(Samples[voltages]), FoundCycles[i].pulses,
                                     FoundCycles[i].widths, 39, 10)
               /\ FoundCycles[i].quality \in 0..QSCALE

\* C23: the quality of every valid cycle is
\* max(0, 1 - (duration_error + width_error + (1 - spacing_consistency)) / 3)
\* with duration_error = |span - 3.90625| / 3.90625 (1000 / 256 ms),
\* width_error = |mean width - 0.24| / 0.24 and
\* spacing_consistency = max(0, 1 - std / mean) of the five spacings, and lies
\* within 0 and 1.
C23_Quality ==
    voltages \in DetectBatches
        => \A i \in 1..Len(FoundCycles) :
               /\ FoundCycles[i].quality
                    = ClaimedQuality(Len(Samples[voltages]), FoundCycles[i].pulses,
                                     FoundCycles[i].widths, 125, 32)
               /\ FoundCycles[i].quality \in 0..QSCALE

\* a batch with two valid cycles has been processed: the regular one, and one
\* with an uneven spacing and a longer span that scores lower
C23_TwoScores ==
    /\ voltages = "late"
    /\ pattern_result.detected
    /\ pattern_result.total_valid_cycles = 2
    /\ pattern_result.all_valid_cycles[1].quality = 9782
    /\ pattern_result.all_valid_cycles[2].quality = 9152

\* C24: the clusters of a batch are exactly the maximal runs of consecutive
\* samples strictly above 0.1 V, in ascending order of index, a run that
\* reaches the end of the batch included: every sample above the threshold is
\* in exactly one cluster and no other sample is in any; a batch without such
\* a sample has no cluster, a batch of nothing else has exactly one.
C24_MaximalRuns ==
    voltages \in DetectBatches
        => LET buf == Samples[voltages]
               cl  == Clusters[voltages]
               High(j) == buf[j + 1] > 100
               last(k) == cl[k][Len(cl[k])]
           IN  /\ \A k \in 1..Len(cl) :
                      /\ cl[k] # <<>>
                      /\ \A m \in 1..Len(cl[k]) :
                             /\ cl[k][m] = cl[k][1] + m - 1
                             /\ cl[k][m] \in 0..(Len(buf) - 1)
                             /\ High(cl[k][m])
                      /\ cl[k][1] = 0 \/ ~High(cl[k][1] - 1)
                      /\ last(k) = Len(buf) - 1 \/ ~High(last(k) + 1)
               /\ \A k \in 1..(Len(cl) - 1) : last(k) < cl[k + 1][1]
               /\ \A j \in 0..(Len(buf) - 1) :
                      High(j) => Cardinality({k \in 1..Len(cl) :
                                                 \E m \in 1..Len(cl[k]) : cl[k][m] = j}) = 1
               /\ (\A j \in 0..(Len(buf) - 1) : ~High(j)) => Len(cl) = 0
               /\ (\A j \in 0..(Len(buf) - 1) : High(j)) => Len(cl) = 1

\* a batch has been processed whose low samples are at exactly 0.1 V and
\* whose last two samples are high: seven clusters, the last one the two
\* samples at the end
C24_FloorAtThreshold ==
    /\ voltages = "edge"
    /\ Len(Clusters.edge) = 7
    /\ Clusters.edge[7] = <<78, 79>>
    /\ Samples.edge[3] = 100
    /\ pattern_result.detected

\* C27: the six pattern-based histories have the same length.
C27_EqualLengths ==
    \A p, q \in PARAMETERS : Len(sample_buffer[p]) = Len(sample_buffer[q])

\* two batches with a pattern have been processed, of four and of two valid
\* cycles: five entries in each history
C27_FiveEach ==
    /\ \A param \in PARAMETERS : Len(sample_buffer[param]) = 5
    /\ consecutive_cycles = 2

====
